---------------------------- MODULE Spec2Model ----------------------------
(***************************************************************************)
(* Model of fedorovmatvey/involta-test: the TTL cache (package cache) and  *)
(* the bounded fan-out/fan-in item processor of package service.           *)
(*                                                                         *)
(* Nine specifications share the module:                                   *)
(*   SpecCache    the cache under concurrent Get/Set/Delete/Clear and the  *)
(*                background sweep, with an explicit clock;                *)
(*   SpecRace     the same without Delete and Clear: expiry and refresh;   *)
(*   SpecCalls    the cache called by one caller at a time;                *)
(*   SpecStop     SpecCalls with Stop and the exit of the sweep goroutine, *)
(*                under fair scheduling;                                   *)
(*   SpecProc     one call of Service.processDocumentsParallel with its    *)
(*                task goroutines and the context's cancellation;          *)
(*   SpecSort     Service.processDocument as a function of one document;   *)
(*   SpecMem      Service.processDocument on the heap: structs and the     *)
(*                backing arrays of their item slices;                     *)
(*   SpecService  Service.Update and Service.Delete over store and cache;  *)
(*   SpecReads    Service.GetByID beside Service.Update and Delete.        *)
(* Each specification leaves the variables it does not model untouched.    *)
(***************************************************************************)
EXTENDS Integers, Sequences, FiniteSets, TLC

(***************************************************************************)
(* Bounds of the model.                                                    *)
(***************************************************************************)
\* number of distinct cache keys (document ids) the clients use
NumKeys == 2
\* the clock runs from 0 to MaxTime
MaxTime == 2

\* longest input of processDocumentsParallel
MaxDocs == 3
\* runtime.NumCPU(): the capacity of the admission gate
NumCPU == 2
\* longest item list given to processDocument
MaxItems == 3
\* sort keys range over 1..MaxSort
MaxSort == 3

\* cache keys
Keys == 1..NumKeys
\* documents stored under a key (two versions are enough to tell a stale one)
Docs == {"d1", "d2"}
\* configured ttl values, in clock ticks (config.go: CacheConfig.TTL)
TTLs == {0, 1}
\* configured capacities: non-positive means unbounded; the positive ones are
\* smaller than the number of keys, so that a Set can find the cache full
Capacities == 0..(NumKeys - 1)
\* concurrent callers of Get
Clients == {"g1"}
\* no client
NoClient == "none"

VARIABLES
    \* ---- cache (handler.go:252-259) ----
    items,      \* Cache.items: key -> cacheItem, or NoItem when not resident
    ttl,        \* Cache.ttl
    capacity,   \* Cache.capacity
    stopped,    \* Cache.stopCleanup has been closed
    now,        \* the clock read by time.Now()
    get,        \* per client: the Get call in flight (position and locals)
    sweep,      \* the startCleanup goroutine (position and cleanup's locals)
    last,       \* history: the cache operation that took effect last
    \* ---- one call of processDocumentsParallel (service.go:150-215) ----
    documents,  \* the argument
    cancelled,  \* ctx is done (ctx.Err() != nil, ctx.Done() closed)
    early,      \* history: ctx was done when the call was made
    pc,         \* position of the calling goroutine
    idx,        \* the loop index i (1-based here)
    sem,        \* number of tokens in the channel sem
    wg,         \* the WaitGroup counter
    task,       \* per index: position of the goroutine started for it
    adm,        \* history: how the select of lines 170-175 ended, per index
    results,    \* the buffered channel results, in arrival order
    ret,        \* what the call returned
    \* ---- one call of processDocument (service.go:136-149) ----
    sdoc,       \* the argument
    sout,       \* the document returned
    \* ---- processDocument on the heap (service.go:136-149) ----
    arrays,     \* the backing arrays of item slices: [used, elems]
    objs,       \* the Document structs: [ID, Items]
    pd,         \* the call: how it is made, its position, its locals
    \* ---- Service.Update and Service.Delete (service.go:76-110) ----
    store,      \* the document store: key -> stored version, or NoVersion
    svc,        \* the call in progress: position, locals, history
    \* ---- Service.GetByID (service.go:59-74) ----
    rd          \* the call in progress: position, locals, result, history

cacheVars == <<items, ttl, capacity, stopped, now, get, sweep, last>>

procVars == <<documents, cancelled, early, pc, idx, sem, wg, task, adm, results, ret>>

sortVars == <<sdoc, sout>>

memVars == <<arrays, objs, pd>>

svcVars == <<store, svc, rd>>

vars == <<items, ttl, capacity, stopped, now, get, sweep, last,
          documents, cancelled, early, pc, idx, sem, wg, task, adm, results, ret,
          sdoc, sout, arrays, objs, pd, store, svc, rd>>

\* what a cache step leaves alone
cacheFrame == UNCHANGED <<procVars, sortVars, memVars, svcVars>>

(***************************************************************************)
(* The cache.                                                              *)
(***************************************************************************)
NoItem == [document |-> "none", expiresAt |-> -1]

\* no key: a value outside Keys
NoKey == NumKeys + 1

\* cacheItem (handler.go:247-250)
CacheItem(doc, exp) == [document |-> doc, expiresAt |-> exp]

\* time.Time.After: strictly later
After(t, u) == t > u

\* the keys resident in a map
Resident(its) == {k \in Keys : its[k] # NoItem}

\* Cache.Size: len(c.items)
Size == Cardinality(Resident(items))

\* a resident entry for k that has not expired at clock reading t
Fresh(its, t, k) == its[k] # NoItem /\ ~After(t, its[k].expiresAt)

\* the last operation: [op, key, evicted, inplace, swept], kept across clock
\* ticks; evicted tells that the Set called evictRandom, inplace that the Set
\* found its key resident in a map filled to a positive capacity; swept
\* names the keys whose entries had expired when the finished sweep pass
\* began and that were not Set during the pass
NoOp ==
    [op |-> "none", key |-> NoKey, evicted |-> FALSE, inplace |-> FALSE,
     swept |-> {}]

\* A Get call: its position, its locals (id, item), its result (found, with
\* item.document) and four history fields: late (the call was issued after
\* the expiry of the entry it read), gone (the call directly follows a Delete
\* of its key), live and alone (see Settle).
IdleGet ==
    [pc |-> "idle", id |-> NoKey, item |-> NoItem, found |-> FALSE,
     late |-> FALSE, gone |-> FALSE, live |-> FALSE, alone |-> FALSE]

InFlight == {"check", "recheck"}

\* The Get records after a step of client actor (NoClient: a step of another
\* caller, of the sweep or of the clock) that leaves them as g2.  A call in
\* flight keeps its history: live stays TRUE while a non-expired entry for its
\* key is resident, alone while no other cache operation runs.  A call that
\* had returned is forgotten: "done" is the state right after the return.
Settle(g2, actor, disturbed) ==
    [c \in Clients |->
        IF c = actor
        THEN [g2[c] EXCEPT !.live = @ /\ Fresh(items', now', g2[c].id)]
        ELSE IF get[c].pc \in InFlight
        THEN [g2[c] EXCEPT !.live = @ /\ Fresh(items', now', g2[c].id),
                           !.alone = @ /\ ~disturbed]
        ELSE IdleGet]

\* ---- Cache.Get (handler.go:275-295) ----

\* lines 276-282: the read under the shared lock, and the miss
GetRead(c, id) ==
    /\ get[c].pc \in {"idle", "done"}
    /\ LET item == items[id] IN
       LET g == IF item = NoItem
                THEN [IdleGet EXCEPT !.pc = "done", !.id = id,
                                     !.gone = (last.op = "Delete" /\ last.key = id),
                                     !.alone = (last.op = "Set" /\ last.key = id)]
                ELSE [pc |-> "check", id |-> id, item |-> item, found |-> FALSE,
                      late |-> After(now, item.expiresAt),
                      gone |-> (last.op = "Delete" /\ last.key = id),
                      live |-> TRUE,
                      alone |-> (last.op = "Set" /\ last.key = id)]
       IN  /\ UNCHANGED <<items, ttl, capacity, stopped, now, sweep>>
           /\ last' = NoOp
           /\ get' = Settle([get EXCEPT ![c] = g], c, TRUE)
           /\ cacheFrame

\* variant: the comparison the other way round
GetExpiredStrictlyBefore(item) == After(item.expiresAt, now)

\* line 284: time.Now().After(item.expiresAt) on the entry read before
GetExpired(item) == After(now, item.expiresAt)

\* lines 284, 294: the expiry test outside any lock, and the hit
GetCheck(c) ==
    /\ get[c].pc = "check"
    /\ UNCHANGED <<items, ttl, capacity, stopped, now, sweep, last>>
    /\ get' = Settle([get EXCEPT ![c] =
                IF GetExpired(get[c].item)
                THEN [@ EXCEPT !.pc = "recheck", !.item = NoItem]
                ELSE [@ EXCEPT !.pc = "done", !.found = TRUE]], c, FALSE)
    /\ cacheFrame

\* variant: the removal without the second look at the entry
GetRecheckBlind(c) ==
    /\ get[c].pc = "recheck"
    /\ items' = [items EXCEPT ![get[c].id] = NoItem]
    /\ UNCHANGED <<ttl, capacity, stopped, now, sweep>>
    /\ last' = NoOp
    /\ get' = Settle([get EXCEPT ![c] = [@ EXCEPT !.pc = "done", !.found = FALSE,
                                                  !.item = NoItem]], c, TRUE)
    /\ cacheFrame

\* lines 285-291: the re-check and removal under the exclusive lock; the
\* call returns not-found whatever the re-check saw
GetRecheck(c) ==
    /\ get[c].pc = "recheck"
    /\ LET id == get[c].id IN
       items' = IF items[id] # NoItem /\ After(now, items[id].expiresAt)
                THEN [items EXCEPT ![id] = NoItem]
                ELSE items
    /\ UNCHANGED <<ttl, capacity, stopped, now, sweep>>
    /\ last' = NoOp
    /\ get' = Settle([get EXCEPT ![c] = [@ EXCEPT !.pc = "done", !.found = FALSE,
                                                  !.item = NoItem]], c, TRUE)
    /\ cacheFrame

\* ---- Cache.Set (handler.go:297-309) and evictRandom (311-316) ----
\* Set holds the exclusive lock from line 298 to its return and reads the
\* clock inside (line 307): one step.

\* variant: the map may grow one past the capacity
NeedsEvictOffByOne(id) ==
    items[id] = NoItem /\ capacity > 0 /\ Size > capacity

\* variant: the test does not ask whether the key is new
NeedsEvictAlsoOnReplace(id) ==
    capacity > 0 /\ Size >= capacity

\* line 301: a new key, a positive capacity and a full map
NeedsEvict(id) ==
    items[id] = NoItem /\ capacity > 0 /\ Size >= capacity

\* variant: evictRandom returns without deleting
EvictNothing(its, victim) == its

\* evictRandom: the first key of an unordered map traversal, i.e. any key
EvictRandom(its, victim) == [its EXCEPT ![victim] = NoItem]

\* variant: the new entry is stored first and the eviction comes after it
SetLockedEvictLast(id, doc) ==
    /\ \E victim \in (IF NeedsEvict(id) THEN Resident(items) \cup {id} ELSE {NoKey}) :
          LET its == [items EXCEPT ![id] = CacheItem(doc, now + ttl)]
          IN  /\ items' = IF victim = NoKey THEN its ELSE EvictRandom(its, victim)
              /\ last' = [NoOp EXCEPT !.op = "Set", !.key = id,
                                       !.evicted = (victim # NoKey)]
    /\ sweep' = [sweep EXCEPT !.fresh = @ \cup ({id} \cap sweep.due)]
    /\ UNCHANGED <<ttl, capacity, stopped, now>>
    /\ get' = Settle(get, NoClient, TRUE)

\* lines 298-308: what Set does to the cache
SetLocked(id, doc) ==
    /\ \E victim \in (IF NeedsEvict(id) THEN Resident(items) ELSE {NoKey}) :
          LET its == IF victim = NoKey THEN items ELSE EvictRandom(items, victim)
          IN  /\ items' = [its EXCEPT ![id] = CacheItem(doc, now + ttl)]
              /\ last' = [NoOp EXCEPT !.op = "Set", !.key = id,
                                       !.evicted = (victim # NoKey),
                                       !.inplace = /\ items[id] # NoItem
                                                   /\ capacity > 0
                                                   /\ Size >= capacity]
    /\ sweep' = [sweep EXCEPT !.fresh = @ \cup ({id} \cap sweep.due)]
    /\ UNCHANGED <<ttl, capacity, stopped, now>>
    /\ get' = Settle(get, NoClient, TRUE)

Set(id, doc) ==
    /\ SetLocked(id, doc)
    /\ cacheFrame

\* ---- Cache.Delete (handler.go:318-323) ----

\* variant: only an entry that has expired is removed
DeleteExpiredOnly(id) ==
    /\ items' = IF items[id] # NoItem /\ After(now, items[id].expiresAt)
                THEN [items EXCEPT ![id] = NoItem]
                ELSE items
    /\ last' = [NoOp EXCEPT !.op = "Delete", !.key = id]
    /\ UNCHANGED <<ttl, capacity, stopped, now, sweep>>
    /\ get' = Settle(get, NoClient, TRUE)
    /\ cacheFrame

\* lines 319-322: what Delete does to the cache
DeleteLocked(id) ==
    /\ items' = [items EXCEPT ![id] = NoItem]
    /\ last' = [NoOp EXCEPT !.op = "Delete", !.key = id]
    /\ UNCHANGED <<ttl, capacity, stopped, now, sweep>>
    /\ get' = Settle(get, NoClient, TRUE)

Delete(id) ==
    /\ DeleteLocked(id)
    /\ cacheFrame

\* ---- Cache.Clear (handler.go:325-330) ----
Clear ==
    /\ items' = [k \in Keys |-> NoItem]
    /\ last' = NoOp
    /\ UNCHANGED <<ttl, capacity, stopped, now, sweep>>
    /\ get' = Settle(get, NoClient, TRUE)
    /\ cacheFrame

\* ---- startCleanup (handler.go:332-344) and cleanup (346-368) ----

\* the goroutine between two passes; in a pass: the clock reading of line
\* 348 and the keys collected, and as history the keys whose entries had
\* expired when the pass began (due) and those of them Set since (fresh)
IdleSweep == [pc |-> "wait", now |-> 0, keys |-> {}, due |-> {}, fresh |-> {}]

\* variant: an entry is collected one tick after its expiry has passed
ExpiredWithGrace(its, t) == {k \in Resident(its) : After(t, its[k].expiresAt + 1)}

\* the keys cleanup collects at clock reading t (lines 351-355)
Expired(its, t) == {k \in Resident(its) : After(t, its[k].expiresAt)}

\* lines 338-339, 347-358: a tick is taken; cleanup reads the clock once and
\* collects the expired keys under the shared lock; with none collected it
\* returns at once (line 358)
SweepCollect ==
    /\ sweep.pc = "wait"
    /\ sweep' = IF Expired(items, now) = {}
                THEN IdleSweep
                ELSE [pc |-> "collected", now |-> now,
                      keys |-> Expired(items, now),
                      due |-> {k \in Keys : /\ items[k] # NoItem
                                            /\ now > items[k].expiresAt},
                      fresh |-> {}]
    /\ UNCHANGED <<items, ttl, capacity, stopped, now, last>>
    /\ get' = Settle(get, NoClient, FALSE)
    /\ cacheFrame

\* lines 359-366: under the exclusive lock each collected key is re-checked
\* against the clock reading of line 348 and deleted
SweepDelete ==
    /\ sweep.pc = "collected"
    /\ items' = [k \in Keys |->
                    IF /\ k \in sweep.keys
                       /\ items[k] # NoItem
                       /\ After(sweep.now, items[k].expiresAt)
                    THEN NoItem ELSE items[k]]
    /\ sweep' = IdleSweep
    /\ last' = [NoOp EXCEPT !.op = "Sweep", !.swept = sweep.due \ sweep.fresh]
    /\ UNCHANGED <<ttl, capacity, stopped, now>>
    /\ get' = Settle(get, NoClient, TRUE)
    /\ cacheFrame

\* variant: the select has no case for the stop channel
SweepExitNever ==
    /\ FALSE
    /\ UNCHANGED vars

\* lines 340-341: the stop channel is closed and the goroutine returns
SweepExit ==
    /\ sweep.pc = "wait"
    /\ stopped
    /\ sweep' = [IdleSweep EXCEPT !.pc = "stopped"]
    /\ UNCHANGED <<items, ttl, capacity, stopped, now, last>>
    /\ get' = Settle(get, NoClient, FALSE)
    /\ cacheFrame

\* ---- Cache.Stop (handler.go:370-372), called once ----
Stop ==
    /\ ~stopped
    /\ stopped' = TRUE
    /\ UNCHANGED <<items, ttl, capacity, now, sweep, last>>
    /\ get' = Settle(get, NoClient, FALSE)
    /\ cacheFrame

\* the clock advances
Tick ==
    /\ now < MaxTime
    /\ now' = now + 1
    /\ UNCHANGED <<items, ttl, capacity, stopped, sweep, last>>
    /\ get' = Settle(get, NoClient, FALSE)
    /\ cacheFrame

(***************************************************************************)
(* Service.processDocument (service.go:136-149).                           *)
(***************************************************************************)

\* model.FirstLevelItem (document.go:15-22): the fields the sort reads or
\* that tell two items apart
Item(id, sort) == [ID |-> id, Sort |-> sort]

\* model.Document (document.go:5-13): the id and the items
Document(id, its) == [ID |-> id, Items |-> its]

NoDoc == [ID |-> "none", Items |-> <<>>]

\* variant: ascending order
LessAscending(a, b) == a.Sort < b.Sort

\* line 145: the less function handed to sort.Slice
Less(a, b) == a.Sort > b.Sort

\* the permutations of 1..n
Perms(n) == {f \in [1..n -> 1..n] : \A i, j \in 1..n : i # j => f[i] # f[j]}

\* sort.Slice(s, Less) (line 144): the slice is left as some permutation of
\* itself in which no element is less than one before it.  The library gives
\* no more ("The sort is not guaranteed to be stable"), so every such
\* permutation is an outcome.
SortSlice(s) ==
    {t \in {[i \in 1..Len(s) |-> s[f[i]]] : f \in Perms(Len(s))} :
        \A i, j \in 1..Len(t) : i < j => ~Less(t[j], t[i])}

\* lines 137-148: the document is copied, its items are copied into a new
\* slice and the copy is sorted (a nil and an empty item list are both <<>>)
ProcessDocument(doc) ==
    {[doc EXCEPT !.Items = its] : its \in SortSlice(doc.Items)}

\* the item lists of at most n items: the item at position i has ID i
ItemLists(n) ==
    UNION {{[i \in 1..m |-> Item(i, k[i])] : k \in [1..m -> 1..MaxSort]} : m \in 0..n}

\* the call processDocument(&sdoc)
SortCall ==
    /\ sout = NoDoc
    /\ sout' \in ProcessDocument(sdoc)
    /\ UNCHANGED <<sdoc, cacheVars, procVars, memVars, svcVars>>

(***************************************************************************)
(* Service.processDocument on the heap: a Document struct holds its items  *)
(* as a slice, a reference to a backing array that copies of the struct    *)
(* share (service.go:136-149 and its three callers).                       *)
(***************************************************************************)

\* an array and a struct that are not allocated
FreeArray == [used |-> FALSE, elems |-> <<>>]

FreeObj == [ID |-> "free", Items |-> "nil"]

\* an array holding the items its
Array(its) == [used |-> TRUE, elems |-> its]

\* the nil slice and the nil pointer
Nil == "nil"

\* the backing arrays: of the input document, and the one line 140 makes
Arrays == {"a1", "a2"}

\* the structs: the input document, the parameter d of the task's function
\* literal (line 178), and the local processed (line 137)
Objs == {"input", "d", "processed"}

\* the callers: GetByID on a cache hit (lines 60-62) and on a miss (lines
\* 65-73), and a task of processDocumentsParallel (lines 178-187)
Callers == {"hit", "miss", "list"}

\* the value of a struct: the document with the contents of its item slice
Deref(o) ==
    Document(objs[o].ID,
             IF objs[o].Items = Nil THEN <<>> ELSE arrays[objs[o].Items].elems)

NoCall == [via |-> "none", pc |-> "none", doc |-> Nil, ret |-> Nil, before |-> NoDoc]

mFrame == UNCHANGED <<cacheVars, procVars, sortVars, svcVars>>

\* The call is made.  GetByID passes the pointer it got from the cache (line
\* 61) or from the store, after storing that pointer in the cache (lines 65,
\* 70, 72): doc points to the input struct.  The go statement of line 190
\* copies documents[i] into the parameter d, a struct whose Items share the
\* backing array of the input, and the task passes &d (line 187).
PdCall ==
    /\ pd.pc = "call"
    /\ IF pd.via = "list"
       THEN /\ objs' = [objs EXCEPT !["d"] = objs["input"]]
            /\ pd' = [pd EXCEPT !.pc = "copy", !.doc = "d"]
       ELSE /\ objs' = objs
            /\ pd' = [pd EXCEPT !.pc = "copy", !.doc = "input"]
    /\ UNCHANGED arrays
    /\ mFrame

\* line 137: processed := *doc, the struct is copied, the slice is shared
PdCopyStruct ==
    /\ pd.pc = "copy"
    /\ objs' = [objs EXCEPT !["processed"] = objs[pd.doc]]
    /\ pd' = [pd EXCEPT !.pc = "items"]
    /\ UNCHANGED arrays
    /\ mFrame

\* variant: the items are not copied
PdCopyItemsShared ==
    /\ pd.pc = "items"
    /\ pd' = [pd EXCEPT !.pc = "sort"]
    /\ UNCHANGED <<arrays, objs>>
    /\ mFrame

\* lines 139-142: for a non-nil slice a new backing array of the same length
\* is made, the items are copied into it and processed.Items refers to it
PdCopyItems ==
    /\ pd.pc = "items"
    /\ IF objs[pd.doc].Items = Nil
       THEN UNCHANGED <<arrays, objs>>
       ELSE \E a \in {r \in Arrays : ~arrays[r].used} :
               /\ arrays' = [arrays EXCEPT ![a] = arrays[objs[pd.doc].Items]]
               /\ objs' = [objs EXCEPT !["processed"].Items = a]
    /\ pd' = [pd EXCEPT !.pc = "sort"]
    /\ mFrame

\* lines 144-146: sort.Slice reorders the backing array of processed.Items
\* in place (a nil slice has nothing to reorder)
PdSort ==
    /\ pd.pc = "sort"
    /\ LET a == objs["processed"].Items IN
       IF a = Nil
       THEN UNCHANGED arrays
       ELSE \E t \in SortSlice(arrays[a].elems) :
                arrays' = [arrays EXCEPT ![a] = Array(t)]
    /\ pd' = [pd EXCEPT !.pc = "done", !.ret = "processed"]
    /\ UNCHANGED objs
    /\ mFrame

(***************************************************************************)
(* Service.Update (service.go:76-100) and Service.Delete (102-110) over    *)
(* the store (part_000: Storage.GetByID, Update, Delete) and the cache.    *)
(***************************************************************************)

\* the store holds no document under the key
NoVersion == "none"

\* no call; in a call: the operation, its id, its position, and as history
\* whether it failed (err), whether its store write succeeded (stored) and
\* whether it called Cache.Delete (invalidated)
IdleSvc ==
    [op |-> "none", id |-> NoKey, pc |-> "idle",
     err |-> FALSE, stored |-> FALSE, invalidated |-> FALSE]

svcFrame == UNCHANGED <<procVars, sortVars, memVars>>

\* Service.Update(ctx, id, req) or Service.Delete(ctx, id) is called
ServiceCall(op, id) ==
    /\ svc.pc \in {"idle", "done"}
    /\ svc' = [IdleSvc EXCEPT !.op = op, !.id = id,
                              !.pc = IF op = "Update" THEN "get" ELSE "store"]
    /\ rd' = [rd EXCEPT !.since = FALSE]
    /\ UNCHANGED <<store, cacheVars>>
    /\ svcFrame

\* lines 77-80: storage.GetByID fails when the document is not there or the
\* query fails, and Update returns the error
UpdateGetByID ==
    /\ svc.op = "Update"
    /\ svc.pc = "get"
    /\ \E ok \in BOOLEAN :
          /\ ok => store[svc.id] # NoVersion
          /\ svc' = IF ok THEN [svc EXCEPT !.pc = "store"]
                          ELSE [svc EXCEPT !.pc = "done", !.err = TRUE]
    /\ UNCHANGED <<store, rd, cacheVars>>
    /\ svcFrame

\* variant: the error of storage.Update is dropped
UpdateStoreErrDropped ==
    /\ svc.op = "Update"
    /\ svc.pc = "store"
    /\ \E doc \in Docs, ok \in BOOLEAN :
          /\ store' = IF ok THEN [store EXCEPT ![svc.id] = doc] ELSE store
          /\ svc' = [svc EXCEPT !.pc = "invalidate", !.stored = ok]
    /\ UNCHANGED <<rd, cacheVars>>
    /\ svcFrame

\* lines 82-95: the fields of the request are written into doc and
\* storage.Update stores it, or fails and Update returns the error
UpdateStore ==
    /\ svc.op = "Update"
    /\ svc.pc = "store"
    /\ \E doc \in Docs, ok \in BOOLEAN :
          /\ store' = IF ok THEN [store EXCEPT ![svc.id] = doc] ELSE store
          /\ svc' = IF ok THEN [svc EXCEPT !.pc = "invalidate", !.stored = TRUE]
                          ELSE [svc EXCEPT !.pc = "done", !.err = TRUE]
    /\ UNCHANGED <<rd, cacheVars>>
    /\ svcFrame

\* lines 103-105: storage.Delete removes the document, or fails and Delete
\* returns the error
DeleteStore ==
    /\ svc.op = "Delete"
    /\ svc.pc = "store"
    /\ \E ok \in BOOLEAN :
          /\ store' = IF ok THEN [store EXCEPT ![svc.id] = NoVersion] ELSE store
          /\ svc' = IF ok THEN [svc EXCEPT !.pc = "invalidate", !.stored = TRUE]
                          ELSE [svc EXCEPT !.pc = "done", !.err = TRUE]
    /\ UNCHANGED <<rd, cacheVars>>
    /\ svcFrame

\* lines 97-99 and 107-109: s.cache.Delete(id), and the return without error
Invalidate ==
    /\ svc.pc = "invalidate"
    /\ DeleteLocked(svc.id)
    /\ svc' = [svc EXCEPT !.pc = "done", !.invalidated = TRUE]
    /\ UNCHANGED <<store, rd>>
    /\ svcFrame

\* ---- Service.GetByID (service.go:59-74) ----

\* no call; in a call: its id, its position, the document read from the
\* store (doc), the result (err, or ret: the version of the document
\* returned, which processDocument leaves as it is), and as history whether
\* the call was made after the last Update or Delete of its id had returned
\* without error and with no call of Update or Delete begun since (since)
IdleRd ==
    [id |-> NoKey, pc |-> "idle", doc |-> NoVersion, ret |-> NoVersion,
     err |-> FALSE, since |-> FALSE]

\* line 60: s.cache.Get(id), run here from its read to its return with no
\* other step in between (handler.go:275-295); a hit returns the cached
\* document (lines 61-62)
GetByIDCache(id) ==
    /\ rd.pc \in {"idle", "done"}
    /\ LET item == items[id]
           hit == item # NoItem /\ ~GetExpired(item)
           rd0 == [IdleRd EXCEPT !.id = id,
                                 !.since = /\ svc.pc = "done"
                                           /\ svc.invalidated
                                           /\ svc.id = id]
       IN  /\ rd' = IF hit
                    THEN [rd0 EXCEPT !.pc = "done", !.ret = item.document]
                    ELSE [rd0 EXCEPT !.pc = "store"]
           /\ items' = IF item # NoItem /\ ~hit
                       THEN [items EXCEPT ![id] = NoItem]
                       ELSE items
    /\ last' = NoOp
    /\ get' = Settle(get, NoClient, TRUE)
    /\ UNCHANGED <<ttl, capacity, stopped, now, sweep, store, svc>>
    /\ svcFrame

\* lines 65-68: storage.GetByID; it fails when the document is not there or
\* the query fails, and GetByID returns the error
GetByIDStore ==
    /\ rd.pc = "store"
    /\ \E ok \in BOOLEAN :
          /\ ok => store[rd.id] # NoVersion
          /\ rd' = IF ok THEN [rd EXCEPT !.pc = "set", !.doc = store[rd.id]]
                        ELSE [rd EXCEPT !.pc = "done", !.err = TRUE]
    /\ UNCHANGED <<store, svc, cacheVars>>
    /\ svcFrame

\* lines 70-73: s.cache.Set(id, doc) with the document read at line 65, and
\* the return of its processed copy
GetByIDSet ==
    /\ rd.pc = "set"
    /\ SetLocked(rd.id, rd.doc)
    /\ rd' = [rd EXCEPT !.pc = "done", !.ret = rd.doc]
    /\ UNCHANGED <<store, svc>>
    /\ svcFrame

(***************************************************************************)
(* Service.processDocumentsParallel (service.go:150-215).                  *)
(***************************************************************************)

\* the documents of the repository's test (part_001:22-38) and one with a tie
DocPool ==
    { Document("doc-1", <<Item("item-1", 10), Item("item-2", 50), Item("item-3", 5)>>),
      Document("doc-2", <<Item("item-A", 1), Item("item-B", 99)>>),
      Document("doc-3", <<Item("item-X", 7), Item("item-Y", 7)>>) }

Inputs == UNION {[1..n -> DocPool] : n \in 0..MaxDocs}

N == Len(documents)

NoRet == [status |-> "running", docs |-> <<>>]

procFrame == UNCHANGED <<cacheVars, sortVars, memVars, svcVars>>

\* variant: no early return for the empty input
ProcStartNoLengthTest ==
    /\ pc = "start"
    /\ pc' = "loop"
    /\ early' = cancelled
    /\ UNCHANGED <<documents, cancelled, idx, sem, wg, task, adm, results, ret>>
    /\ procFrame

\* lines 151-163: the empty input is returned as it is; otherwise the gate,
\* the result channel and the WaitGroup are made
ProcStart ==
    /\ pc = "start"
    /\ IF N = 0
       THEN pc' = "done" /\ ret' = [status |-> "ok", docs |-> documents]
       ELSE pc' = "loop" /\ ret' = ret
    /\ early' = cancelled
    /\ UNCHANGED <<documents, cancelled, idx, sem, wg, task, adm, results>>
    /\ procFrame

\* variant: the loop without the test of ctx.Err()
LoopCheckNoErrTest ==
    /\ pc = "loop"
    /\ pc' = IF idx > N THEN "wait" ELSE "select"
    /\ UNCHANGED <<documents, early, cancelled, idx, sem, wg, task, adm, results, ret>>
    /\ procFrame

\* lines 165-168: the range loop ends, or breaks when ctx.Err() != nil
LoopCheck ==
    /\ pc = "loop"
    /\ pc' = IF idx > N \/ cancelled THEN "wait" ELSE "select"
    /\ UNCHANGED <<documents, early, cancelled, idx, sem, wg, task, adm, results, ret>>
    /\ procFrame

\* line 171: the send on sem goes through when the gate has room
SelectAcquire ==
    /\ pc = "select"
    /\ sem < NumCPU
    /\ sem' = sem + 1
    /\ adm' = [adm EXCEPT ![idx] = IF cancelled THEN "slot-after-cancel" ELSE "slot"]
    /\ pc' = "spawn"
    /\ UNCHANGED <<documents, early, cancelled, idx, wg, task, results, ret>>
    /\ procFrame

\* lines 173-174: ctx.Done() is ready; the break leaves the select statement,
\* not the loop, and control goes on to line 177
SelectDone ==
    /\ pc = "select"
    /\ cancelled
    /\ adm' = [adm EXCEPT ![idx] = "no-slot"]
    /\ pc' = "spawn"
    /\ UNCHANGED <<documents, early, cancelled, idx, sem, wg, task, results, ret>>
    /\ procFrame

\* lines 177-178, 190: wg.Add(1) and the go statement
Spawn ==
    /\ pc = "spawn"
    /\ wg' = wg + 1
    /\ task' = [task EXCEPT ![idx] = "start"]
    /\ idx' = idx + 1
    /\ pc' = "loop"
    /\ UNCHANGED <<documents, early, cancelled, sem, adm, results, ret>>
    /\ procFrame

\* variant: the task returns without sending, whatever the state of ctx
TaskRunSilent(i) ==
    /\ task[i] = "start"
    /\ results' = results
    /\ task' = [task EXCEPT ![i] = "release"]
    /\ UNCHANGED <<documents, early, cancelled, pc, idx, sem, wg, adm, ret>>
    /\ procFrame

\* lines 183-189: the task returns at once when ctx is done, else it
\* processes its document and sends the result tagged with its index
TaskRun(i) ==
    /\ task[i] = "start"
    /\ IF cancelled
       THEN results' = results
       ELSE \E d \in ProcessDocument(documents[i]) :
                results' = Append(results, [index |-> i, doc |-> d])
    /\ task' = [task EXCEPT ![i] = "release"]
    /\ UNCHANGED <<documents, early, cancelled, pc, idx, sem, wg, adm, ret>>
    /\ procFrame

\* line 181: the deferred receive from sem, which waits for a token
TaskRelease(i) ==
    /\ task[i] = "release"
    /\ sem > 0
    /\ sem' = sem - 1
    /\ task' = [task EXCEPT ![i] = "wgdone"]
    /\ UNCHANGED <<documents, early, cancelled, pc, idx, wg, adm, results, ret>>
    /\ procFrame

\* line 179: the deferred wg.Done()
TaskDone(i) ==
    /\ task[i] = "wgdone"
    /\ wg' = wg - 1
    /\ task' = [task EXCEPT ![i] = "finished"]
    /\ UNCHANGED <<documents, early, cancelled, pc, idx, sem, adm, results, ret>>
    /\ procFrame

\* lines 193-194: wg.Wait() returns when the counter is zero; close(results)
Wait ==
    /\ pc = "wait"
    /\ wg = 0
    /\ pc' = "err"
    /\ UNCHANGED <<documents, early, cancelled, idx, sem, wg, task, adm, results, ret>>
    /\ procFrame

\* variant: ctx.Err() is not looked at after the wait
CheckErrSkipped ==
    /\ pc = "err"
    /\ pc' = "assemble"
    /\ UNCHANGED <<documents, early, cancelled, idx, sem, wg, task, adm, results, ret>>
    /\ procFrame

\* lines 196-198
CheckErr ==
    /\ pc = "err"
    /\ IF cancelled
       THEN pc' = "done" /\ ret' = [status |-> "cancelled", docs |-> <<>>]
       ELSE pc' = "assemble" /\ ret' = ret
    /\ UNCHANGED <<documents, early, cancelled, idx, sem, wg, task, adm, results>>
    /\ procFrame

\* lines 200-203: the map from index to document, a later result for an
\* index replacing an earlier one
ProcessedMap(res) ==
    [i \in {res[k].index : k \in 1..Len(res)} |->
        LET k == CHOOSE k \in 1..Len(res) :
                    /\ res[k].index = i
                    /\ \A m \in 1..Len(res) : res[m].index = i => m <= k
        IN  res[k].doc]

\* variant: the output in the order the results arrived
AssembleInArrivalOrder(res, n) == [i \in 1..n |-> res[i].doc]

\* lines 209-212: the output in index order
Assemble(res, n) == [i \in 1..n |-> ProcessedMap(res)[i]]

\* lines 200-214
Collect ==
    /\ pc = "assemble"
    /\ pc' = "done"
    /\ ret' = IF Cardinality(DOMAIN ProcessedMap(results)) # N
              THEN [status |-> "incomplete", docs |-> <<>>]
              ELSE [status |-> "ok", docs |-> Assemble(results, N)]
    /\ UNCHANGED <<documents, early, cancelled, idx, sem, wg, task, adm, results>>
    /\ procFrame

\* the context is cancelled: before the call is made (pc = "start") or at any
\* moment before it has returned
Cancel ==
    /\ ~cancelled
    /\ pc # "done"
    /\ cancelled' = TRUE
    /\ UNCHANGED <<documents, early, pc, idx, sem, wg, task, adm, results, ret>>
    /\ procFrame

\* a step of the call: of the calling goroutine or of one of its tasks
CallStep ==
    \/ ProcStart
    \/ LoopCheck
    \/ SelectAcquire
    \/ SelectDone
    \/ Spawn
    \/ \E i \in 1..MaxDocs : TaskRun(i)
    \/ \E i \in 1..MaxDocs : TaskRelease(i)
    \/ \E i \in 1..MaxDocs : TaskDone(i)
    \/ Wait
    \/ CheckErr
    \/ Collect

(***************************************************************************)
(* The specifications.                                                     *)
(***************************************************************************)

\* no call of processDocumentsParallel
IdleProc ==
    /\ documents = <<>>
    /\ cancelled = FALSE
    /\ early = FALSE
    /\ pc = "idle"
    /\ idx = 1
    /\ sem = 0
    /\ wg = 0
    /\ task = [i \in 1..MaxDocs |-> "none"]
    /\ adm = [i \in 1..MaxDocs |-> "none"]
    /\ results = <<>>
    /\ ret = NoRet

\* no store and no call of Update or Delete
IdleService ==
    /\ store = [k \in Keys |-> NoVersion]
    /\ svc = IdleSvc
    /\ rd = IdleRd

\* no call of processDocument
IdleSort ==
    /\ sdoc = NoDoc
    /\ sout = NoDoc
    /\ arrays = [a \in Arrays |-> FreeArray]
    /\ objs = [o \in Objs |-> FreeObj]
    /\ pd = NoCall

\* no cache
IdleCache ==
    /\ items = [k \in Keys |-> NoItem]
    /\ ttl = 0
    /\ capacity = 0
    /\ stopped = FALSE
    /\ now = 0
    /\ get = [c \in Clients |-> IdleGet]
    /\ sweep = IdleSweep
    /\ last = NoOp

\* cache.New (handler.go:261-273); under races the unbounded cache and the
\* cache of one entry are taken
InitCache ==
    /\ items = [k \in Keys |-> NoItem]
    /\ ttl \in TTLs
    /\ capacity \in {0, 1}
    /\ stopped = FALSE
    /\ now = 0
    /\ get = [c \in Clients |-> IdleGet]
    /\ sweep = IdleSweep
    /\ last = NoOp
    /\ IdleProc
    /\ IdleSort
    /\ IdleService

\* the cache in service: callers and the sweep
NextCache ==
    \/ \E c \in Clients, id \in Keys : GetRead(c, id)
    \/ \E c \in Clients : GetCheck(c)
    \/ \E c \in Clients : GetRecheck(c)
    \/ \E id \in Keys, doc \in Docs : Set(id, doc)
    \/ \E id \in Keys : Delete(id)
    \/ Clear
    \/ SweepCollect
    \/ SweepDelete
    \/ Tick

SpecCache == InitCache /\ [][NextCache]_vars

\* cache.New, as under SpecCache
InitRace == InitCache

\* expiry against refresh: Get and the sweep, which remove expired entries,
\* interleaved step by step with Set, which refreshes them, and the clock
NextRace ==
    \/ \E c \in Clients, id \in Keys : GetRead(c, id)
    \/ \E c \in Clients : GetCheck(c)
    \/ \E c \in Clients : GetRecheck(c)
    \/ \E id \in Keys, doc \in Docs : Set(id, doc)
    \/ SweepCollect
    \/ SweepDelete
    \/ Tick

SpecRace == InitRace /\ [][NextRace]_vars

\* no Get is between two of its steps
Quiet == \A c \in Clients : get[c].pc \notin InFlight

\* cache.New with any of the capacities
InitCalls ==
    /\ items = [k \in Keys |-> NoItem]
    /\ ttl \in TTLs
    /\ capacity \in Capacities
    /\ stopped = FALSE
    /\ now = 0
    /\ get = [c \in Clients |-> IdleGet]
    /\ sweep = IdleSweep
    /\ last = NoOp
    /\ IdleProc
    /\ IdleSort
    /\ IdleService

\* the cache called by one caller at a time: a Get runs to its return before
\* the next call, a sweep pass or a clock tick; the two phases of a sweep
\* pass remain apart, with calls between them
NextCalls ==
    \/ \E c \in Clients, id \in Keys : GetRead(c, id)
    \/ \E c \in Clients : GetCheck(c)
    \/ \E c \in Clients : GetRecheck(c)
    \/ Quiet /\ \E id \in Keys, doc \in Docs : Set(id, doc)
    \/ Quiet /\ \E id \in Keys : Delete(id)
    \/ Quiet /\ Clear
    \/ Quiet /\ SweepCollect
    \/ Quiet /\ SweepDelete
    \/ Quiet /\ Tick

SpecCalls == InitCalls /\ [][NextCalls]_vars

\* the same with the shutdown: Stop is called once, at any moment, and the
\* sweep goroutine exits
NextStop ==
    \/ NextCalls
    \/ Stop
    \/ SweepExit

\* What the scheduling gives the sweep goroutine and the callers: a Get that
\* has started goes on to its return; a sweep pass that waits for the
\* exclusive lock gets it (callers hold the lock for a few statements); the
\* select of line 337, which chooses at random among its ready cases, does
\* not pass over the closed stop channel for ever.
FairStop ==
    /\ \A c \in Clients : WF_vars(GetCheck(c)) /\ WF_vars(GetRecheck(c))
    /\ SF_vars(Quiet /\ SweepDelete)
    /\ SF_vars(SweepExit)

\* cache.New of an unbounded cache whose entries live one tick (the shutdown
\* looks neither at capacity nor at ttl)
InitStop ==
    /\ InitCalls
    /\ capacity = 0
    /\ ttl = 1

SpecStop == InitStop /\ [][NextStop]_vars /\ FairStop


\* a call of processDocumentsParallel with any input of at most MaxDocs documents
InitProc ==
    /\ documents \in Inputs
    /\ cancelled = FALSE
    /\ early = FALSE
    /\ pc = "start"
    /\ idx = 1
    /\ sem = 0
    /\ wg = 0
    /\ task = [i \in 1..MaxDocs |-> "none"]
    /\ adm = [i \in 1..MaxDocs |-> "none"]
    /\ results = <<>>
    /\ ret = NoRet
    /\ IdleCache
    /\ IdleSort
    /\ IdleService

NextProc ==
    \/ CallStep
    \/ Cancel

SpecProc == InitProc /\ [][NextProc]_vars

\* a call of processDocument with any document of at most MaxItems items
InitSort ==
    /\ sdoc \in {Document("doc", its) : its \in ItemLists(MaxItems)}
    /\ sout = NoDoc
    /\ arrays = [a \in Arrays |-> FreeArray]
    /\ objs = [o \in Objs |-> FreeObj]
    /\ pd = NoCall
    /\ IdleCache
    /\ IdleProc
    /\ IdleService

NextSort == SortCall

SpecSort == InitSort /\ [][NextSort]_vars

\* a call of processDocument by any of its callers, on a document whose item
\* slice is nil or refers to a backing array of at most MaxItems items
InitMem ==
    /\ \E its \in ItemLists(MaxItems), isNil \in BOOLEAN :
          /\ isNil => its = <<>>
          /\ arrays = [a \in Arrays |->
                          IF a = "a1" /\ ~isNil THEN Array(its) ELSE FreeArray]
          /\ objs = [o \in Objs |->
                        IF o = "input"
                        THEN [ID |-> "doc", Items |-> IF isNil THEN Nil ELSE "a1"]
                        ELSE FreeObj]
          /\ \E via \in Callers :
                pd = [via |-> via, pc |-> "call", doc |-> Nil, ret |-> Nil,
                      before |-> Document("doc", its)]
    /\ sdoc = NoDoc
    /\ sout = NoDoc
    /\ IdleCache
    /\ IdleProc
    /\ IdleService

NextMem ==
    \/ PdCall
    \/ PdCopyStruct
    \/ PdCopyItems
    \/ PdSort

SpecMem == InitMem /\ [][NextMem]_vars

\* the service over a store that holds any documents and a new cache
InitService ==
    /\ store \in [Keys -> Docs \cup {NoVersion}]
    /\ svc = IdleSvc
    /\ rd = IdleRd
    /\ items = [k \in Keys |-> NoItem]
    /\ ttl \in TTLs
    /\ capacity \in Capacities
    /\ stopped = FALSE
    /\ now = 0
    /\ get = [c \in Clients |-> IdleGet]
    /\ sweep = IdleSweep
    /\ last = NoOp
    /\ IdleProc
    /\ IdleSort

\* calls of Update and Delete, one after the other, while the cache is
\* filled by other requests (the Set of GetByID, line 70)
NextService ==
    \/ \E op \in {"Update", "Delete"}, id \in Keys : ServiceCall(op, id)
    \/ UpdateGetByID
    \/ UpdateStore
    \/ DeleteStore
    \/ Invalidate
    \/ \E id \in Keys, doc \in Docs : Set(id, doc)

SpecService == InitService /\ [][NextService]_vars

\* calls of GetByID, one after the other, beside calls of Update and Delete,
\* one after the other; the two sequences interleave step by step; the
\* cache is filled by GetByID only, and the clock advances
NextReads ==
    \/ \E op \in {"Update", "Delete"}, id \in Keys : ServiceCall(op, id)
    \/ UpdateGetByID
    \/ UpdateStore
    \/ DeleteStore
    \/ Invalidate
    \/ \E id \in Keys : GetByIDCache(id)
    \/ GetByIDStore
    \/ GetByIDSet
    \/ Tick

SpecReads == InitService /\ [][NextReads]_vars

(***************************************************************************)
(* Properties of the cache.                                                *)
(***************************************************************************)

\* C1: with a positive capacity the number of resident entries never exceeds
\* it, whatever Set, Get, Delete, Clear and the sweep did; with a capacity
\* <= 0 no Set evicts.
C1_CapacityBound ==
    /\ capacity > 0 => Size <= capacity
    /\ capacity <= 0 => ~last.evicted

\* a Set on a full cache has just evicted an entry and the cache is full again
C1_Witness ==
    /\ capacity > 0
    /\ last.op = "Set"
    /\ last.evicted
    /\ Size = capacity

\* C8: a Get during which a non-expired entry for its key was resident at
\* every instant reports found (the case of linearizability the claim names).
C8_GetSeesLiveEntry ==
    \A c \in Clients : (get[c].pc = "done" /\ get[c].live) => get[c].found

\* C9: a Get never returns an entry whose expiry is in the past: not one
\* that had expired when the Get was issued, nor one that has expired at the
\* clock reading of its return.
C9_NoExpiredHit ==
    \A c \in Clients :
        (get[c].pc = "done" /\ get[c].found) =>
            /\ ~get[c].late
            /\ ~After(now, get[c].item.expiresAt)

\* a Get issued after the expiry of the resident entry has returned not-found
C9_Witness ==
    \E c \in Clients : get[c].pc = "done" /\ get[c].late /\ ~get[c].found

\* C11: when a sweep pass has run to completion, every entry that had expired
\* when the pass began and whose key was not Set during the pass is no longer
\* resident (Size does not count it), whether or not a Get was issued for it.
C11_SweptAbsent ==
    last.op = "Sweep" => \A k \in last.swept : k \notin Resident(items)

\* a pass has just removed an expired entry while no Get is under way, and
\* another entry stays resident
C11_Witness ==
    /\ last.op = "Sweep"
    /\ last.swept # {}
    /\ Size > 0
    /\ \A c \in Clients : get[c].pc = "idle"

\* C12: a Get of k that follows a Delete of k with no Set of k in between
\* returns not-found: Delete(k) leaves k not resident, only a Set of k makes k
\* resident again, a Get of a key that is not resident returns not-found at
\* once, and so does the Get that directly follows the Delete.  Delete(k) on
\* a key that is not resident leaves the map, the configuration and the sweep
\* as they were.
C12_DeleteThenGet ==
    /\ [](\A c \in Clients : (get[c].pc = "done" /\ get[c].gone) => ~get[c].found)
    /\ [][\A k \in Keys :
            /\ Delete(k) =>
                  /\ k \notin Resident(items')
                  /\ k \notin Resident(items) =>
                        /\ items' = items
                        /\ UNCHANGED <<ttl, capacity, stopped, now, sweep>>
            /\ (k \notin Resident(items) /\ k \in Resident(items')) =>
                  \E doc \in Docs : Set(k, doc)
            /\ \A c \in Clients :
                  (GetRead(c, k) /\ k \notin Resident(items)) =>
                        get'[c].pc = "done" /\ ~get'[c].found]_vars

\* a Get of a key has returned not-found right after the Delete of that key,
\* in a cache that holds another entry
C12_Witness ==
    /\ \E c \in Clients : get[c].pc = "done" /\ get[c].gone /\ ~get[c].found
    /\ Size > 0

\* C18: once Stop has been called the sweep goroutine terminates; once it
\* has terminated it stays so, no sweep pass starts or removes an entry; and
\* after Stop a Get can be issued and Set, Delete and Clear can be called
\* for every key (Size is a read of the map).
C18_StopEndsSweep ==
    /\ stopped ~> (sweep.pc = "stopped")
    /\ [][sweep.pc = "stopped" =>
            /\ sweep' = sweep
            /\ stopped'
            /\ last'.op = "Sweep" => last' = last]_vars
    /\ [](stopped =>
            /\ \A c \in Clients, id \in Keys :
                  get[c].pc \in {"idle", "done"} => ENABLED GetRead(c, id)
            /\ \A id \in Keys, doc \in Docs : ENABLED Set(id, doc)
            /\ \A id \in Keys : ENABLED Delete(id)
            /\ ENABLED Clear)

\* the sweep goroutine has terminated, and the entry that the last Set
\* stored has outlived its expiry and is still resident
C18_Witness ==
    /\ sweep.pc = "stopped"
    /\ last.op = "Set"
    /\ After(now, items[last.key].expiresAt)

C20_ReplaceInPlace ==
    [][\A id \in Keys, doc \in Docs :
        (Set(id, doc) /\ id \in Resident(items)) =>
            /\ items' = [items EXCEPT ![id] = CacheItem(doc, now + ttl)]
            /\ Resident(items') = Resident(items)
            /\ ~last'.evicted]_vars

\* a Set has just replaced the entry of a key that was resident in a cache
\* filled to its capacity; the key holds the new entry, stamped now + ttl
C20_Witness ==
    /\ last.op = "Set"
    /\ last.inplace
    /\ ~last.evicted
    /\ Size = capacity
    /\ items[last.key].expiresAt = now + ttl

\* C21: the lazy removal of Get (the step from its re-check to its return)
\* and the second phase of a sweep pass change the map only by deleting
\* entries, and every entry they delete is expired at the clock reading of
\* the deletion: an entry put by a Set after the first look, and not expired
\* since, stays.
C21_OnlyExpiredRemoved ==
    [][((\E c \in Clients : get[c].pc = "recheck" /\ get'[c].pc = "done")
            \/ (sweep.pc = "collected" /\ sweep'.pc = "wait")) =>
        \A k \in Keys :
            items'[k] # items[k] =>
                /\ items'[k] = NoItem
                /\ After(now, items[k].expiresAt)]_vars

\* a Get has returned through its re-check: the entry it read had expired
\* when it was issued, and the key now holds an entry that has not expired,
\* put by a Set since the read and left alone by the re-check
C21_Witness ==
    \E c \in Clients :
        /\ get[c].pc = "done"
        /\ ~get[c].found
        /\ get[c].late
        /\ Fresh(items, now, get[c].id)

\* C25 as stated: with ttl > 0 a Get of k issued when the entry that the
\* last Set of k stored had not expired, with no other cache operation
\* between that Set and the Get's return, returns found.
C25_RoundTripIssuedBefore ==
    ttl > 0 =>
        \A c \in Clients :
            (get[c].pc = "done" /\ get[c].alone /\ ~get[c].late) => get[c].found

\* C25: (1) right after Set(k, d), k holds (d, now + ttl), whatever the
\* capacity and whether or not an entry was evicted; (2) an entry that has
\* not expired leaves the map or changes only by a Set or a Delete of its
\* key, by Clear, or by the eviction of a Set of a key that was not
\* resident; (3) with ttl > 0, a Get of k with no cache operation between
\* the last Set of k and the Get's expiry test returns that Set's entry,
\* found, if and only if the clock reading of the test is not after the
\* entry's expiry; otherwise it goes on to the re-check and returns
\* not-found.
C25_RoundTrip ==
    /\ [][last'.op = "Set" =>
            \A doc \in Docs :
                Set(last'.key, doc) =>
                    items'[last'.key] = CacheItem(doc, now + ttl)]_vars
    /\ [][\A k \in Keys :
            (Fresh(items, now, k) /\ items'[k] # items[k]) =>
                \/ last'.op = "Set" /\ (last'.key = k \/ last'.evicted)
                \/ last'.op = "Delete" /\ last'.key = k
                \/ items' = [j \in Keys |-> NoItem]]_vars
    /\ [][\A c \in Clients :
            (ttl > 0 /\ get[c].pc = "check" /\ get[c].alone
                     /\ get'[c].pc # "check") =>
                /\ get[c].item = items[get[c].id]
                /\ IF After(now, get[c].item.expiresAt)
                   THEN get'[c].pc = "recheck"
                   ELSE /\ get'[c].pc = "done"
                        /\ get'[c].found
                        /\ get'[c].item = items[get[c].id]]_vars

\* a Get has returned the entry that the Set before it stored in a cache
\* filled to its capacity, at the last clock reading before the entry
\* expires, one tick after the Set
C25_Witness ==
    \E c \in Clients :
        /\ ttl > 0
        /\ capacity > 0
        /\ Size = capacity
        /\ get[c].pc = "done"
        /\ get[c].found
        /\ get[c].alone
        /\ get[c].item = items[get[c].id]
        /\ get[c].item.expiresAt = now

\* C10: with ttl = 0 a Get that directly follows a Set of its key, with no
\* other cache operation in between, returns not-found.
C10_ZeroTtlMiss ==
    ttl = 0 =>
        \A c \in Clients : (get[c].pc = "done" /\ get[c].alone) => ~get[c].found

(***************************************************************************)
(* Properties of Service.Update and Service.Delete.                        *)
(***************************************************************************)

\* C17: Update and Delete call Cache.Delete(id) if and only if the store
\* operation succeeded, and after it.  A call that has returned has failed
\* or has invalidated, never both, and has invalidated only after its store
\* write; the step at s.cache.Delete removes the call's id from the cache,
\* and every other step of the call, the failing ones included, leaves the
\* cache as it is.
C17_InvalidateAfterStore ==
    /\ [](/\ svc.pc = "done" => (svc.invalidated <=> ~svc.err)
          /\ svc.invalidated => svc.stored
          /\ svc.pc = "invalidate" => (svc.stored /\ ~svc.err))
    /\ [][svc' # svc =>
            IF svc.pc = "invalidate"
            THEN /\ svc.id \notin Resident(items')
                 /\ \A k \in Keys \ {svc.id} : items'[k] = items[k]
                 /\ last'.op = "Delete" /\ last'.key = svc.id
            ELSE UNCHANGED cacheVars]_vars

\* an Update has returned without error: the store holds a version under the
\* id and the cache, which still holds another entry, holds none under it;
\* the Update's Cache.Delete was the last cache operation
C17_Witness ==
    /\ svc.pc = "done"
    /\ svc.op = "Update"
    /\ svc.invalidated
    /\ store[svc.id] # NoVersion
    /\ last.op = "Delete"
    /\ Size > 0

\* C22: once an Update or Delete of id has returned without error and no
\* GetByID is under way, the cache holds for id nothing but the store's
\* current version (nothing at all after a Delete); and a GetByID of id made
\* after that return, with no Update or Delete begun since, returns the
\* store's current version.
C22_FreshAfterWrite ==
    (svc.pc = "done" /\ svc.invalidated) =>
        /\ rd.pc \in {"idle", "done"} =>
              (items[svc.id] # NoItem =>
                  items[svc.id].document = store[svc.id])
        /\ (rd.pc = "done" /\ rd.since /\ ~rd.err) => rd.ret = store[rd.id]

(***************************************************************************)
(* Properties of processDocumentsParallel.                                 *)
(***************************************************************************)

\* the tasks started that have not yet given back a gate slot (the deferred
\* wg.Done that follows is not counted as activity)
Active == {i \in 1..MaxDocs : task[i] \in {"start", "release"}}

\* C2: every call returns: as long as it has not, the calling goroutine or
\* one of its tasks can take a step.
C2_CallReturns == pc = "done" \/ ENABLED CallStep

\* C3: without cancellation the call returns exactly N documents, and
\* position i holds a processed form of input document i, whatever order the
\* results arrived in.
C3_OrderPreserved ==
    (pc = "done" /\ ~cancelled) =>
        /\ ret.status = "ok"
        /\ Len(ret.docs) = N
        /\ \A i \in 1..N : /\ ret.docs[i].ID = documents[i].ID
                           /\ ret.docs[i] \in ProcessDocument(documents[i])

\* a call has returned all its documents although the result of the second
\* document arrived before that of the first, whose ID differs
C3_Witness ==
    /\ pc = "done"
    /\ ~cancelled
    /\ ret.status = "ok"
    /\ N >= 2
    /\ results[1].index = 2
    /\ documents[1].ID # documents[2].ID

\* C6: every task was started on an admission that completed (a gate slot
\* was acquired) before the cancellation signal fired.
C6_NoAdmissionAfterCancel ==
    \A i \in 1..MaxDocs : task[i] # "none" => adm[i] = "slot"

\* C7: at most NumCPU tasks are active at any moment.
C7_GateBound == Cardinality(Active) <= NumCPU

\* C13 as stated: whatever the input, a call made after the cancellation
\* signal has fired returns the cancellation error and no documents.
C13_EarlyCancelAnyInput ==
    (pc = "done" /\ early) => (ret.status = "cancelled" /\ ret.docs = <<>>)

\* C13: a call made with a non-empty input after the cancellation signal has
\* fired returns the cancellation error and no documents, and has started no
\* task; made with the empty input it returns the empty sequence, no error.
C13_EarlyCancel ==
    (pc = "done" /\ early) =>
        IF N > 0
        THEN /\ ret.status = "cancelled"
             /\ ret.docs = <<>>
             /\ \A i \in 1..MaxDocs : task[i] = "none"
        ELSE ret = [status |-> "ok", docs |-> <<>>]

\* a call made with MaxDocs documents after the signal fired has returned
C13_Witness ==
    /\ pc = "done"
    /\ early
    /\ N = MaxDocs
    /\ ret.status = "cancelled"

\* C14: a call with the empty input starts no task and acquires no gate slot
\* at any moment, and returns the empty sequence with no error.
C14_EmptyInput ==
    N = 0 =>
        /\ \A i \in 1..MaxDocs : task[i] = "none" /\ adm[i] = "none"
        /\ sem = 0
        /\ wg = 0
        /\ results = <<>>
        /\ pc \in {"idle", "start", "done"}
        /\ pc = "done" => ret = [status |-> "ok", docs |-> <<>>]

\* a call with the empty input has returned, on a context that is done
C14_Witness ==
    /\ pc = "done"
    /\ N = 0
    /\ cancelled
    /\ ret.status = "ok"

\* len(processedMap): the number of results collected
Collected == Cardinality(DOMAIN ProcessedMap(results))

\* C15 as stated: a call that returns with a number of collected results
\* other than the number of input documents returns the incomplete-processing
\* error.
C15_MismatchIsIncomplete ==
    (pc = "done" /\ N > 0 /\ Collected # N) => ret.status = "incomplete"

\* C15: a call that returns with a number of collected results other than
\* the number of input documents returns an error and no documents: the
\* cancellation error when the signal has fired, the incomplete-processing
\* error otherwise.  A returned sequence has the length of the input and
\* holds at each position the processed form of the input document there,
\* never a zero-valued one.
C15_MismatchFails ==
    pc = "done" =>
        /\ (N > 0 /\ Collected # N) =>
              /\ ret.status = (IF cancelled THEN "cancelled" ELSE "incomplete")
              /\ ret.docs = <<>>
        /\ ret.status = "ok" =>
              /\ Len(ret.docs) = N
              /\ \A i \in 1..N : ret.docs[i] \in ProcessDocument(documents[i])
        /\ ret.status # "ok" => ret.docs = <<>>

\* a call has returned with some results collected, but not all
C15_Witness ==
    /\ pc = "done"
    /\ Collected > 0
    /\ Collected < N
    /\ ret.docs = <<>>

\* the gate slots acquired by the loop, and those given back by tasks
Acquired == Cardinality({i \in 1..MaxDocs : adm[i] \in {"slot", "slot-after-cancel"}})

Released == Cardinality({i \in 1..MaxDocs : task[i] \in {"wgdone", "finished"}})

\* C23: the gate's accounting is balanced: every task started had a slot
\* acquired for it, the slots given back never exceed the slots acquired,
\* and no task waits for a slot to give back once the loop has ended and the
\* gate is empty (no slot can arrive any more).
C23_GateBalanced ==
    /\ \A i \in 1..MaxDocs : task[i] # "none" => adm[i] # "no-slot"
    /\ Released <= Acquired
    /\ sem = Acquired - Released
    /\ ~(pc = "wait" /\ sem = 0 /\ \E i \in 1..MaxDocs : task[i] = "release")

\* C24: once the tasks have settled (wg.Wait has returned), fewer results
\* than input documents mean that the cancellation signal has fired; the
\* call then returns the cancellation error, and no call ever returns the
\* incomplete-processing error.
C24_NeverIncomplete ==
    /\ ret.status # "incomplete"
    /\ (pc \in {"err", "assemble", "done"} /\ Collected < N) => cancelled
    /\ (pc = "done" /\ Collected < N) => ret.status = "cancelled"
    /\ pc = "assemble" => Collected = N

\* a call made before the signal fired has returned the cancellation error
\* with the results of all its documents but one
C24_Witness ==
    /\ pc = "done"
    /\ ~early
    /\ N = MaxDocs
    /\ Collected = N - 1
    /\ ret.status = "cancelled"

(***************************************************************************)
(* Properties of processDocument.                                          *)
(***************************************************************************)

\* how often x occurs in the sequence s
Count(s, x) == Cardinality({i \in 1..Len(s) : s[i] = x})

\* C4: the items of a returned document are a permutation of the input's
\* items, in order of non-increasing sort key.
C4_SortedPermutation ==
    sout # NoDoc =>
        /\ sout.ID = sdoc.ID
        /\ Len(sout.Items) = Len(sdoc.Items)
        /\ \A i \in 1..Len(sdoc.Items) :
               Count(sout.Items, sdoc.Items[i]) = Count(sdoc.Items, sdoc.Items[i])
        /\ \A i, j \in 1..Len(sout.Items) :
               i < j => sout.Items[i].Sort >= sout.Items[j].Sort

\* a list of MaxItems items with distinct keys came back in another order
C4_Witness ==
    /\ sout # NoDoc
    /\ Len(sdoc.Items) = MaxItems
    /\ sout.Items # sdoc.Items
    /\ \A i, j \in 1..Len(sdoc.Items) : i # j => sdoc.Items[i].Sort # sdoc.Items[j].Sort

\* C16: processing never changes its input: at every moment of a call made by
\* GetByID on a hit, by GetByID on a miss or by a task of List, the struct of
\* the input document (the one the cache or the input sequence holds) and the
\* contents of its item slice are what they were before the call; the slice
\* that is sorted is a private copy, and the document returned is a sorted
\* form of the input.
C16_InputUntouched ==
    pd.via \in Callers =>
        /\ Deref("input") = pd.before
        /\ objs["input"].Items \in {Nil, "a1"}
        /\ pd.pc = "done" =>
              /\ Deref(pd.ret) \in ProcessDocument(pd.before)
              /\ objs["input"].Items # Nil =>
                    objs[pd.ret].Items # objs["input"].Items

\* a call on a cache hit has returned a document whose items are in another
\* order than those of the cached document
C16_Witness ==
    /\ pd.via = "hit"
    /\ pd.pc = "done"
    /\ Deref(pd.ret).Items # Deref("input").Items
    /\ Len(Deref("input").Items) = MaxItems

\* C5: items with equal sort keys keep their input order (an input item's ID
\* is its input position).
C5_Stable ==
    sout # NoDoc =>
        \A i, j \in 1..Len(sout.Items) :
            (i < j /\ sout.Items[i].Sort = sout.Items[j].Sort)
                => sout.Items[i].ID < sout.Items[j].ID

=============================================================================
